---- MODULE Spec2Model ----
(***************************************************************************)
(* IGo: the time-weighted routing graph of igo.py (build_igraph,           *)
(* get_congestion, get_shortest_path_with_ispeeds) and the life cycle of   *)
(* bot.py (module-level start-up, the staleness check, the /go handler).   *)
(*                                                                         *)
(* Congestion levels are the one-character strings "0".."6" of the feed;   *)
(* they are modelled by the digits 0..6: equality and <= on one-character  *)
(* digit strings agree with the numbers, and float() of them is the number.*)
(* itime is a float; it is modelled by the exact fraction <<num, den>> in  *)
(* lowest terms.  Python indices are 0-based: s[i] is written At(s, i).    *)
(***************************************************************************)
EXTENDS Integers, Sequences, FiniteSets, TLC

VARIABLES
    pc,               \* position of bot.py's module-level code
    graph,            \* bot.py:46  the networkx graph object (mutated in place)
    congestions,      \* bot.py:50  the current list of Congestion tuples
    lines,            \* igo.py:224 the rows of the feed read by the last download
    START_TIME,       \* bot.py:52  time of the last update
    current_time,     \* bot.py:337 time read by the staleness check
    IGRAPH,           \* bot.py:54  reference to the published graph
    now,              \* the wall clock, in minutes
    bpc, bx, bi,      \* build_igraph: phase, outer index x, index of the edge loop
    user_data,        \* context.user_data of the last /go, and the reply sent
    sample, level,    \* argument and result of a single get_congestion call
    asked,            \* history: the age of the graph and the builds at the last /go
    pre,              \* history: graph, feed and START_TIME before the running build
    builds,           \* history: number of build_igraph calls that returned
    failed            \* history: what made the program stop, if it did

vars == <<pc, graph, congestions, lines, START_TIME, current_time, IGRAPH, now,
          bpc, bx, bi, user_data, sample, level, asked, pre, builds, failed>>

-----------------------------------------------------------------------------
(* Bounds of the model *)

\* longest congestion feed, in rows
MaxSamples == 2
\* last minute of the wall clock
MaxTime == 7

-----------------------------------------------------------------------------
(* Constants of the program *)

\* datetime.timedelta(minutes=5)
ThresholdMinutes == 5
\* way['congestion'] = "2"
DefaultCongestion == 2
\* way['maxspeed'] = "30"
DefaultMaxspeed == 30
\* the two-maxspeed rule: way['congestion'] <= "2"
LowCongestion == 2

Levels == 0..6

\* an attribute that is not in the edge dictionary
NoAttr == -1
NoItime == <<>>
\* no route: shortest_path raised, or returned None
NoPath == <<>>
NoRef == "unset"
GraphRef == "graph"

At(s, i) == s[i + 1]

-----------------------------------------------------------------------------
(* Exact arithmetic for itime *)

RECURSIVE GCD(_, _)
GCD(a, b) == IF b = 0 THEN a ELSE GCD(b, a % b)

Rat(n, d) == LET g == GCD(n, d) IN IF g = 0 THEN <<0, 1>> ELSE <<n \div g, d \div g>>

RatAdd(p, q) == Rat(p[1] * q[2] + q[1] * p[2], p[2] * q[2])

RatLeq(p, q) == p[1] * q[2] <= q[1] * p[2]

-----------------------------------------------------------------------------
(* The base network: osmnx/networkx MultiDiGraph *)

\* download_graph reduces the network to a DiGraph and back to a
\* MultiDiGraph: every edge has key 0 and no two edges are parallel.
\* Node ids come from the map data.  Nodes lie at (x, y) = (lon, lat).
\*   a -> b -> c -> d, and the bypass a -> c
MkNet(a, b, c, d) ==
    LET E == << <<a, b, 0>>, <<a, c, 0>>, <<b, c, 0>>, <<c, d, 0>> >>
        es == {E[i] : i \in 1..Len(E)}
    IN  [ nodes      |-> {a, b, c, d},
          x          |-> (a :> 0) @@ (b :> 1) @@ (c :> 2) @@ (d :> 3),
          y          |-> (a :> 0) @@ (b :> 1) @@ (c :> 2) @@ (d :> 3),
          edges      |-> E,
          length     |-> (E[1] :> 100) @@ (E[2] :> 250) @@ (E[3] :> 100) @@ (E[4] :> 200),
          maxspeed   |-> (E[1] :> <<>>) @@ (E[2] :> <<50>>) @@ (E[3] :> <<30>>)
                         @@ (E[4] :> <<50, 10>>),
          congestion |-> [e \in es |-> NoAttr],
          itime      |-> [e \in es |-> NoItime] ]

\* a network whose node ids are 0, 1, 2, 3
NetSmall == MkNet(0, 1, 2, 3)
\* a network whose node ids are those of a map (none of them 0)
NetOSM == MkNet(10, 11, 12, 13)

\* NetSmall with a maxspeed list that osmnx built of the values 20 and 50 of
\* the merged ways, in their order along the edge
NetRising == [NetSmall EXCEPT !.maxspeed[<<2, 3, 0>>] = <<20, 50>>]
\* NetSmall with the maxspeed values 50 and 0 on that edge
NetZero == [NetSmall EXCEPT !.maxspeed[<<2, 3, 0>>] = <<50, 0>>]

BaseNetworks == {NetSmall, NetOSM, NetRising, NetZero}

EdgeSet(g) == {g.edges[i] : i \in 1..Len(g.edges)}

\* graph[u]: raises KeyError when u is no node
HasNode(g, u) == u \in g.nodes
\* graph[u][v]: raises KeyError when v is no successor of u
Keys(g, u, v) == {e[3] : e \in {f \in EdgeSet(g) : f[1] = u /\ f[2] = v}}
Succ(g, u) == {e[2] : e \in {f \in EdgeSet(g) : f[1] = u}}

\* the keys of graph[u][v] in iteration order
RECURSIVE SortedSeq(_)
SortedSeq(S) ==
    IF S = {} THEN <<>>
    ELSE LET m == CHOOSE k \in S : \A j \in S : k <= j
         IN  <<m>> \o SortedSeq(S \ {m})

\* osmnx.distance.nearest_nodes(G, X, Y): the node nearest to (x, y) = (X, Y)
Dist2(g, n, X, Y) == (g.x[n] - X) * (g.x[n] - X) + (g.y[n] - Y) * (g.y[n] - Y)

nearest_nodes(g, X, Y) ==
    CHOOSE n \in g.nodes :
        \A m \in g.nodes :
            \/ Dist2(g, n, X, Y) < Dist2(g, m, X, Y)
            \/ Dist2(g, n, X, Y) = Dist2(g, m, X, Y) /\ n <= m

\* the simple paths from cur to t that avoid the nodes of seen
RECURSIVE PathsFrom(_, _, _, _)
PathsFrom(g, cur, t, seen) ==
    IF cur = t THEN {<<t>>}
    ELSE UNION { {<<cur>> \o p : p \in PathsFrom(g, n, t, seen \cup {n})}
                 : n \in Succ(g, cur) \ seen }

\* weight of the hop u -> v in a multigraph: the least over its parallel edges
HopLength(g, u, v) ==
    LET W == {g.length[<<u, v, k>>] : k \in Keys(g, u, v)}
    IN  CHOOSE w \in W : \A o \in W : w <= o

RECURSIVE PathLength(_, _)
PathLength(g, p) ==
    IF Len(p) < 2 THEN 0
    ELSE HopLength(g, p[1], p[2]) + PathLength(g, Tail(p))

\* weight='itime' on a multigraph: the least itime of the parallel edges; an
\* edge without the attribute weighs 1
HopItime(g, u, v) ==
    LET W == {IF g.itime[<<u, v, k>>] = NoItime THEN <<1, 1>> ELSE g.itime[<<u, v, k>>]
              : k \in Keys(g, u, v)}
    IN  CHOOSE w \in W : \A o \in W : RatLeq(w, o)

RECURSIVE PathItime(_, _)
PathItime(g, p) ==
    IF Len(p) < 2 THEN <<0, 1>>
    ELSE RatAdd(HopItime(g, p[1], p[2]), PathItime(g, Tail(p)))

\* shortest_path with weight='itime' for weight='length'
ShortestByLength_itime(g, s, t) ==
    LET P == PathsFrom(g, s, t, {s})
    IN  IF P = {} THEN NoPath
        ELSE CHOOSE p \in P : \A q \in P : RatLeq(PathItime(g, p), PathItime(g, q))

\* osmnx.distance.shortest_path(graph, orig, dest, weight='length')
ShortestByLength(g, s, t) ==
    LET P == PathsFrom(g, s, t, {s})
    IN  IF P = {} THEN NoPath
        ELSE CHOOSE p \in P : \A q \in P : PathLength(g, p) <= PathLength(g, q)

-----------------------------------------------------------------------------
(* The feeds *)

\* Highway(way_id, name, coordinates): coordinates.split(',') is the list
\* lon, lat, lon, lat, ... of the points of the street
highways ==
    << [way_id |-> 1, coordinates |-> <<0, 0, 3, 3>>],
       [way_id |-> 2, coordinates |-> <<0, 0, 1, 1, 2, 2>>] >>

\* a row of the congestion feed, split at '#': way_id, date, usual, actual
Row(w, u, a) == <<w, 0, u, a>>
\* a row with a field missing
MalformedRow == <<1, 0, 2>>

RowPool == {Row(1, 2, 4), Row(1, 0, 0), Row(2, 3, 0), MalformedRow}

RawFeeds == UNION {[1..n -> RowPool] : n \in 0..MaxSamples}

\* way_id, date, usual, actual = u_line: raises ValueError unless 4 fields
Unpacks(row) == Len(row) = 4

Congestion(row) == [way_id |-> row[1], date |-> row[2], usual |-> row[3], actual |-> row[4]]

\* download_congestions: the list of Congestion tuples, when no row raises
DownloadOk(rows) == \A i \in 1..Len(rows) : Unpacks(rows[i])

download_congestions(rows) == [i \in 1..Len(rows) |-> Congestion(rows[i])]

\* get_congestion without the case of no data
get_congestion_no_data(c) ==
    IF c.usual # c.actual /\ c.actual # 0 THEN c.actual
    ELSE c.usual

\* get_congestion with "or" for "and" in the test for no data
get_congestion_or(c) ==
    IF c.usual = 0 \/ c.actual = 0 THEN 2
    ELSE IF c.usual # c.actual /\ c.actual # 0 THEN c.actual
    ELSE c.usual

\* get_congestion(congestion)
get_congestion(c) ==
    IF c.usual = 0 /\ c.actual = 0 THEN 2
    ELSE IF c.usual # c.actual /\ c.actual # 0 THEN c.actual
    ELSE c.usual

-----------------------------------------------------------------------------
(* build_igraph, first loop: the congestion of the streets *)

Stamp(g, e, lv) == [g EXCEPT !.congestion[e] = lv]

\* for j in graph[x][x+1]: graph[route[x]][route[x+1]][j]['congestion'] = level
\* ks: the keys of graph[x][x+1] still to visit.  A key the route's hop does
\* not have raises KeyError.
RECURSIVE StampKeys(_, _, _, _, _)
StampKeys(g, u, v, ks, lv) ==
    IF ks = <<>> THEN [g |-> g, ok |-> TRUE]
    ELSE IF Head(ks) \notin Keys(g, u, v) THEN [g |-> g, ok |-> FALSE]
    ELSE StampKeys(Stamp(g, <<u, v, Head(ks)>>, lv), u, v, Tail(ks), lv)

\* for x in range(0, len(shortest_rute)-1, 2): the loop variable is the x of
\* the outer loop.  xv: the value of x on entry; xx: the next value of the range.
\* Returns the graph and the value x is left with; an exception ends the loop.
RECURSIVE StampRoute(_, _, _, _, _)
StampRoute(g, xv, route, lv, xx) ==
    IF xx >= Len(route) - 1 THEN [g |-> g, x |-> xv]
    ELSE IF ~HasNode(g, xx) \/ (xx + 1) \notin Succ(g, xx) THEN [g |-> g, x |-> xx]
    ELSE LET r == StampKeys(g, At(route, xx), At(route, xx + 1),
                            SortedSeq(Keys(g, xx, xx + 1)), lv)
         IN  IF r.ok THEN StampRoute(r.g, xx, route, lv, xx + 2)
             ELSE [g |-> r.g, x |-> xx]

\* for i in range(0, len(coordinates) - 3, 4): one group of four numbers
RECURSIVE MatchGroups(_, _, _, _, _)
MatchGroups(g, xv, coordinates, lv, i) ==
    IF i >= Len(coordinates) - 3 THEN [g |-> g, x |-> xv]
    ELSE LET node_start == nearest_nodes(g, At(coordinates, i + 1), At(coordinates, i))
             node_end == nearest_nodes(g, At(coordinates, i + 3), At(coordinates, i + 2))
             shortest_rute == ShortestByLength(g, node_start, node_end)
             r == IF shortest_rute = NoPath THEN [g |-> g, x |-> xv]
                  ELSE StampRoute(g, xv, shortest_rute, lv, 0)
         IN  MatchGroups(r.g, r.x, coordinates, lv, i + 4)

\* for y in range(0, len(congestions)): highways[x] is read with the current
\* value of x, and raises IndexError when x is past the list
RECURSIVE MatchSamples(_, _, _, _, _)
MatchSamples(g, xv, coordinates, cs, y) ==
    IF y >= Len(cs) THEN [g |-> g, ok |-> TRUE]
    ELSE IF xv >= Len(highways) THEN [g |-> g, ok |-> FALSE]
    ELSE IF At(highways, xv).way_id = At(cs, y).way_id
         THEN LET r == MatchGroups(g, xv, coordinates, get_congestion(At(cs, y)), 0)
              IN  MatchSamples(r.g, r.x, coordinates, cs, y + 1)
         ELSE MatchSamples(g, xv, coordinates, cs, y + 1)

\* one iteration of for x in range(0, len(highways))
MatchHighway(g, x, cs) == MatchSamples(g, x, At(highways, x).coordinates, cs, 0)

-----------------------------------------------------------------------------
(* build_igraph, second loop: congestion, maxspeed and itime of every edge *)

\* Speed with < for <= in the test of the congestion
Speed_strict(maxspeed, cong) ==
    IF Len(maxspeed) = 2
    THEN IF cong < LowCongestion THEN maxspeed[1] ELSE maxspeed[2]
    ELSE maxspeed[1]

\* the speed of an edge: one of two values, or the only one
Speed(maxspeed, cong) ==
    IF Len(maxspeed) = 2
    THEN IF cong <= LowCongestion THEN maxspeed[1] ELSE maxspeed[2]
    ELSE maxspeed[1]

\* Weigh with the itime computed under "if 'congestion' not in way" only
Weigh_itime_nested(g, way, length) ==
    LET c == IF g.congestion[way] = NoAttr THEN DefaultCongestion ELSE g.congestion[way]
        m == IF g.maxspeed[way] = <<>> THEN <<DefaultMaxspeed>> ELSE g.maxspeed[way]
        g1 == [g EXCEPT !.congestion[way] = c, !.maxspeed[way] = m]
    IN  IF g.congestion[way] # NoAttr THEN [g |-> g1, ok |-> TRUE]
        ELSE [g |-> [g1 EXCEPT !.itime[way] = Rat(length * c, m[1])], ok |-> TRUE]

\* the body of for i in graph[u][v], for the edge way = graph[u][v][i] and the
\* length of the edge of the outer loop; float division by 0 raises
Weigh(g, way, length) ==
    LET c == IF g.congestion[way] = NoAttr THEN DefaultCongestion ELSE g.congestion[way]
        m == IF g.maxspeed[way] = <<>> THEN <<DefaultMaxspeed>> ELSE g.maxspeed[way]
        g1 == [g EXCEPT !.congestion[way] = c, !.maxspeed[way] = m]
        speed == Speed(m, c)
    IN  IF speed = 0 THEN [g |-> g1, ok |-> FALSE]
        ELSE [g |-> [g1 EXCEPT !.itime[way] = Rat(length * c, speed)], ok |-> TRUE]

RECURSIVE WeighKeys(_, _, _, _, _)
WeighKeys(g, u, v, ks, length) ==
    IF ks = <<>> THEN [g |-> g, ok |-> TRUE]
    ELSE LET r == Weigh(g, <<u, v, Head(ks)>>, length)
         IN  IF r.ok THEN WeighKeys(r.g, u, v, Tail(ks), length) ELSE r

\* one iteration of for (u, v, length) in graph.edges.data('length')
WeighEdge(g, e) ==
    WeighKeys(g, e[1], e[2], SortedSeq(Keys(g, e[1], e[2])), g.length[e])

-----------------------------------------------------------------------------
(* build_igraph as a whole: both loops, on the graph it is handed *)

RECURSIVE MatchAll(_, _, _)
MatchAll(g, x, cs) ==
    IF x >= Len(highways) THEN [g |-> g, ok |-> TRUE]
    ELSE LET r == MatchHighway(g, x, cs)
         IN  IF r.ok THEN MatchAll(r.g, x + 1, cs) ELSE r

RECURSIVE WeighAll(_, _)
WeighAll(g, i) ==
    IF i >= Len(g.edges) THEN [g |-> g, ok |-> TRUE]
    ELSE LET r == WeighEdge(g, At(g.edges, i))
         IN  IF r.ok THEN WeighAll(r.g, i + 1) ELSE r

\* the graph build_igraph returns (ok), or the graph it leaves when it raises
build_igraph(g, cs) ==
    LET m == MatchAll(g, 0, cs)
    IN  IF m.ok THEN WeighAll(m.g, 0) ELSE m

-----------------------------------------------------------------------------
(* get_shortest_path_with_ispeeds *)

\* the paths osmnx.distance.shortest_path(igraph, orig, dest, weight='itime')
\* may return; none when dest cannot be reached
ShortestByItime(g, s, t) ==
    LET P == PathsFrom(g, s, t, {s})
    IN  {p \in P : \A q \in P : RatLeq(PathItime(g, p), PathItime(g, q))}

\* osmnx.geocode gives (lat, lon); the nearest node is asked for (X, Y) = (lon, lat)
QueryPlaces == {<<0, 0>>, <<3, 3>>}

NodeOf(g, loc) == nearest_nodes(g, loc[2], loc[1])

-----------------------------------------------------------------------------
(* bot.py: the module-level code and the handlers *)

\* bot.py:46-52: the graph, the streets and the first feed are loaded and the
\* start time is taken; build_igraph of bot.py:54 is about to run
Init ==
    /\ pc = "L54"
    /\ graph \in BaseNetworks
    /\ \E rows \in {r \in RawFeeds : DownloadOk(r)} :
          lines = rows /\ congestions = download_congestions(rows)
    /\ START_TIME = 0
    /\ current_time = 0
    /\ now = 0
    /\ IGRAPH = NoRef
    /\ bpc = "match" /\ bx = 0 /\ bi = 0
    /\ user_data = [location |-> NoRef, destination |-> NoRef, path |-> NoPath,
                    reply |-> "none"]
    /\ sample = Congestion(Row(1, 0, 0)) /\ level = NoAttr
    /\ asked = [age |-> 0, builds |-> 0, n |-> 0]
    /\ pre = [graph |-> graph, congestions |-> congestions, START_TIME |-> START_TIME]
    /\ builds = 0
    /\ failed = "no"

Building == pc \in {"L54", "L343"}

\* build_igraph lines 348-373, one street
MatchStep ==
    /\ Building /\ bpc = "match" /\ bx < Len(highways)
    /\ LET r == MatchHighway(graph, bx, congestions)
       IN  /\ graph' = r.g
           /\ IF r.ok
              THEN /\ bx' = bx + 1
                   /\ bpc' = IF bx + 1 = Len(highways) THEN "weigh" ELSE "match"
                   /\ UNCHANGED <<pc, failed>>
              ELSE /\ pc' = "stopped" /\ failed' = "IndexError"
                   /\ UNCHANGED <<bx, bpc>>
    /\ UNCHANGED <<lines, congestions, START_TIME, current_time, IGRAPH, now, bi, user_data,
                   sample, level, asked, pre, builds>>

\* build_igraph lines 375-402, one edge of graph.edges
WeighStep ==
    /\ Building /\ bpc = "weigh" /\ bi < Len(graph.edges)
    /\ LET r == WeighEdge(graph, At(graph.edges, bi))
       IN  /\ graph' = r.g
           /\ IF r.ok
              THEN /\ bi' = bi + 1
                   /\ bpc' = IF bi + 1 = Len(graph.edges) THEN "return" ELSE "weigh"
                   /\ UNCHANGED <<pc, failed>>
              ELSE /\ pc' = "stopped" /\ failed' = "ZeroDivisionError"
                   /\ UNCHANGED <<bi, bpc>>
    /\ UNCHANGED <<lines, congestions, START_TIME, current_time, IGRAPH, now, bx, user_data,
                   sample, level, asked, pre, builds>>

\* bot.py:54  IGRAPH = igo.build_igraph(graph, highways, congestions)
Return54 ==
    /\ pc = "L54" /\ bpc = "return"
    /\ IGRAPH' = GraphRef
    /\ builds' = builds + 1
    /\ pc' = "L335" /\ bpc' = "idle"
    /\ UNCHANGED <<lines, graph, congestions, START_TIME, current_time, now, bx, bi, user_data,
                   sample, level, asked, pre, failed>>

\* bot.py:335-339  the check of the age of the graph, before start_polling
StalenessCheck ==
    /\ pc = "L335"
    /\ current_time' = now
    /\ pc' = IF now - START_TIME > ThresholdMinutes THEN "L341" ELSE "polling"
    /\ pre' = IF now - START_TIME > ThresholdMinutes
              THEN [graph |-> graph, congestions |-> congestions, START_TIME |-> START_TIME]
              ELSE pre
    /\ UNCHANGED <<lines, graph, congestions, START_TIME, IGRAPH, now, bpc, bx, bi, user_data,
                   sample, level, asked, builds, failed>>

\* bot.py:341  congestions = igo.download_congestions(CONGESTIONS_URL)
Download ==
    /\ pc = "L341"
    /\ \E rows \in RawFeeds :
          /\ lines' = rows
          /\ IF DownloadOk(rows)
             THEN /\ congestions' = download_congestions(rows)
                  /\ pc' = "L343" /\ bpc' = "match" /\ bx' = 0 /\ bi' = 0
                  /\ UNCHANGED failed
             ELSE /\ pc' = "stopped" /\ failed' = "ValueError"
                  /\ UNCHANGED <<congestions, bpc, bx, bi>>
    /\ UNCHANGED <<graph, START_TIME, current_time, IGRAPH, now, user_data,
                   sample, level, asked, pre, builds>>

\* bot.py:341  urllib.request.urlopen raises: the feed cannot be fetched
FetchFails ==
    /\ pc = "L341"
    /\ pc' = "stopped" /\ failed' = "URLError"
    /\ UNCHANGED <<lines, graph, congestions, START_TIME, current_time, IGRAPH, now, bpc, bx, bi,
                   user_data, sample, level, asked, pre, builds>>

\* the rebuild without START_TIME = current_time
Return343_no_reset ==
    /\ pc = "L343" /\ bpc = "return"
    /\ IGRAPH' = GraphRef
    /\ builds' = builds + 1
    /\ pc' = "polling" /\ bpc' = "idle"
    /\ UNCHANGED <<lines, graph, congestions, START_TIME, current_time, now, bx, bi, user_data,
                   sample, level, asked, pre, failed>>

\* bot.py:343-345  IGRAPH = igo.build_igraph(...); START_TIME = current_time
Return343 ==
    /\ pc = "L343" /\ bpc = "return"
    /\ IGRAPH' = GraphRef
    /\ START_TIME' = current_time
    /\ builds' = builds + 1
    /\ pc' = "polling" /\ bpc' = "idle"
    /\ UNCHANGED <<lines, graph, congestions, current_time, now, bx, bi, user_data,
                   sample, level, asked, pre, failed>>

\* the /go handler with the check of bot.py:335-339 in it: a query that finds
\* the graph older than the threshold goes on to the download and the rebuild
Go_rebuilds ==
    /\ pc = "polling" /\ IGRAPH = GraphRef
    /\ \E location \in QueryPlaces, destination \in QueryPlaces :
          LET P == ShortestByItime(graph, NodeOf(graph, location), NodeOf(graph, destination))
              ud == [location |-> location, destination |-> destination]
          IN  IF P = {}
              THEN user_data' = ud @@ [path |-> NoPath, reply |-> "error"]
              ELSE \E p \in P : user_data' = ud @@ [path |-> p, reply |-> "photo"]
    /\ asked' = [age |-> now - START_TIME, builds |-> builds, n |-> 1]
    /\ pc' = IF now - START_TIME > ThresholdMinutes THEN "L341" ELSE pc
    /\ UNCHANGED <<lines, graph, congestions, START_TIME, current_time, IGRAPH, now,
                   bpc, bx, bi,
                   sample, level, pre, builds, failed>>

\* the /go handler with a plot_path that draws an empty map when there is no path
Go_plots_none ==
    /\ pc = "polling" /\ IGRAPH = GraphRef
    /\ \E location \in QueryPlaces, destination \in QueryPlaces :
          LET P == ShortestByItime(graph, NodeOf(graph, location), NodeOf(graph, destination))
              ud == [location |-> location, destination |-> destination]
          IN  IF P = {}
              THEN user_data' = ud @@ [path |-> NoPath, reply |-> "photo"]
              ELSE \E p \in P : user_data' = ud @@ [path |-> p, reply |-> "photo"]
    /\ asked' = [age |-> now - START_TIME, builds |-> builds, n |-> 1]
    /\ UNCHANGED <<lines, pc, graph, congestions, START_TIME, current_time, IGRAPH, now,
                   bpc, bx, bi,
                   sample, level, pre, builds, failed>>

\* bot.py:253-311  the /go handler, from location to destination.  It reads
\* IGRAPH; a place that cannot be resolved, or no route, ends in the except
\* branch and the error message.
Go ==
    /\ pc = "polling" /\ IGRAPH = GraphRef
    /\ \E location \in QueryPlaces, destination \in QueryPlaces :
          LET P == ShortestByItime(graph, NodeOf(graph, location), NodeOf(graph, destination))
              ud == [location |-> location, destination |-> destination]
          IN  IF P = {}
              THEN user_data' = ud @@ [path |-> NoPath, reply |-> "error"]
              ELSE \E p \in P : user_data' = ud @@ [path |-> p, reply |-> "photo"]
    /\ asked' = [age |-> now - START_TIME, builds |-> builds, n |-> 1]
    /\ UNCHANGED <<lines, pc, graph, congestions, START_TIME, current_time, IGRAPH, now,
                   bpc, bx, bi,
                   sample, level, pre, builds, failed>>

\* the clock; it is read at bot.py:337 only, so time passes there and
\* between the queries
Tick ==
    /\ pc \in {"L335", "polling"}
    /\ now < MaxTime
    /\ now' = now + 1
    /\ UNCHANGED <<lines, pc, graph, congestions, START_TIME, current_time, IGRAPH, bpc, bx, bi,
                   user_data, sample, level, asked, pre, builds, failed>>

Next ==
    \/ MatchStep
    \/ WeighStep
    \/ Return54
    \/ StalenessCheck
    \/ Download
    \/ FetchFails
    \/ Return343
    \/ Go
    \/ Tick

Spec == Init /\ [][Next]_vars

-----------------------------------------------------------------------------
(* get_congestion on its own: every pair of levels *)

InitReconcile ==
    /\ pc = "reconcile"
    /\ graph = NetOSM
    /\ congestions = <<>> /\ lines = <<>>
    /\ START_TIME = 0 /\ current_time = 0 /\ now = 0
    /\ IGRAPH = NoRef
    /\ bpc = "idle" /\ bx = 0 /\ bi = 0
    /\ user_data = [location |-> NoRef, destination |-> NoRef, path |-> NoPath,
                    reply |-> "none"]
    /\ \E w \in {1, 2}, u \in Levels, a \in Levels : sample = Congestion(Row(w, u, a))
    /\ level = NoAttr
    /\ asked = [age |-> 0, builds |-> 0, n |-> 0]
    /\ pre = [graph |-> graph, congestions |-> congestions, START_TIME |-> START_TIME]
    /\ builds = 0
    /\ failed = "no"

\* congestion_level = get_congestion(congestions[y])
Reconcile ==
    /\ pc = "reconcile" /\ level = NoAttr
    /\ level' = get_congestion(sample)
    /\ UNCHANGED <<lines, pc, graph, congestions, START_TIME, current_time, IGRAPH, now,
                   bpc, bx, bi,
                   user_data, sample, asked, pre, builds, failed>>

NextReconcile == Reconcile

SpecReconcile == InitReconcile /\ [][NextReconcile]_vars

-----------------------------------------------------------------------------
(* The claims *)

\* build_igraph has returned and no other build has begun
Returned == bpc = "idle" /\ builds >= 1

\* the network as it was loaded
BaseOf(g) ==
    CHOOSE n \in BaseNetworks :
        /\ n.nodes = g.nodes
        /\ \A e \in EdgeSet(n) : n.maxspeed[e] # <<>> => n.maxspeed[e] = g.maxspeed[e]

\* C1: for every pair (usual, actual) of levels, get_congestion returns 2 when
\* both are 0, actual when actual is not 0 and differs from usual, usual
\* otherwise; the result is a level 0..6.
C1_Reconcile ==
    level # NoAttr =>
        /\ level \in Levels
        /\ (sample.usual = 0 /\ sample.actual = 0) => level = 2
        /\ (sample.actual # 0 /\ sample.actual # sample.usual) => level = sample.actual
        /\ (sample.actual = 0 /\ sample.usual # 0) => level = sample.usual
        /\ (sample.actual = sample.usual /\ sample.usual # 0) => level = sample.usual

C1_Witness == level = 4 /\ sample.usual = 2 /\ sample.actual = 4

C3_StaleQueryRebuilds ==
    (asked.n = 1 /\ asked.age > ThresholdMinutes) => builds > asked.builds

\* C4: a rebuild that succeeds resets START_TIME to the time of that rebuild,
\* and a /go issued within the threshold of it triggers no other rebuild.
C4_ClockReset ==
    builds = 2 =>
        /\ START_TIME = current_time
        /\ (asked.n = 1 /\ asked.age <= ThresholdMinutes) => asked.builds = builds

C4_Witness == builds = 2 /\ asked.n = 1 /\ asked.age <= ThresholdMinutes /\ START_TIME > 0

\* C5: when a rebuild fails (feed not fetched, malformed row, error inside
\* build_igraph), the published graph has the attributes it had before the
\* rebuild, START_TIME is unchanged, and the program goes on serving, so that
\* the next query can retry.
C5_FailedRebuildKeepsGraph ==
    (failed # "no" /\ builds >= 1) =>
        /\ graph = pre.graph
        /\ START_TIME = pre.START_TIME
        /\ pc # "stopped"

\* C6: after build_igraph returns, every edge (every key of every node pair)
\* has the congestion and the itime attribute.
C6_BothAttributes ==
    Returned =>
        \A e \in EdgeSet(graph) : graph.congestion[e] # NoAttr /\ graph.itime[e] # NoItime

C6_Witness ==
    Returned /\ \E e \in EdgeSet(graph) : graph.congestion[e] = 4 /\ graph.itime[e] # NoItime

\* C7: when the first two points of a street snap to nodes joined by a path and
\* the street's sample reconciles to level L, build_igraph sets congestion L on
\* every edge of the shortest path by length between the two nodes.  Stated for
\* the first build and a feed of one sample.
C7_PathStamped ==
    (Returned /\ builds = 1 /\ Len(congestions) = 1) =>
        \A k \in 1..Len(highways) :
            highways[k].way_id = congestions[1].way_id =>
                LET c == highways[k].coordinates
                    route == ShortestByLength(graph, nearest_nodes(graph, c[2], c[1]),
                                              nearest_nodes(graph, c[4], c[3]))
                IN  route # NoPath =>
                        \A j \in 1..(Len(route) - 1) :
                            \A key \in Keys(graph, route[j], route[j + 1]) :
                                graph.congestion[<<route[j], route[j + 1], key>>]
                                    = get_congestion(congestions[1])

C9_AllDefault ==
    (Returned /\ congestions = <<>>) =>
        \A e \in EdgeSet(graph) :
            LET b == BaseOf(graph).maxspeed[e]
                m == IF b = <<>> THEN <<30>> ELSE b
            IN  /\ graph.congestion[e] = 2
                /\ graph.maxspeed[e] = m
                /\ graph.itime[e] # NoItime
                /\ graph.itime[e][1] * m[1] = graph.length[e] * 2 * graph.itime[e][2]

\* C10: a rebuild with the network, the streets and the congestion feed of the
\* build before it changes no attribute of any edge.
C10_Idempotent ==
    (builds = 2 /\ congestions = pre.congestions) => graph = pre.graph

C10_Witness ==
    /\ builds = 2 /\ congestions = pre.congestions /\ congestions # <<>>
    /\ \E e \in EdgeSet(graph) : graph.congestion[e] = 4

\* C11: when the feed of the rebuild differs from the feed of the build before
\* it in the level of one sample only, and that level is higher, every edge
\* whose congestion went from the lower to the higher level has an itime that
\* is not smaller than before; edges with two maxspeed values included.
C11_Monotone ==
    (builds = 2 /\ Returned /\ Len(congestions) = Len(pre.congestions)) =>
        \A k \in 1..Len(congestions) :
            ( /\ congestions[k].way_id = pre.congestions[k].way_id
              /\ get_congestion(pre.congestions[k]) < get_congestion(congestions[k])
              /\ \A j \in 1..Len(congestions) : j # k => congestions[j] = pre.congestions[j] )
            => \A e \in EdgeSet(graph) :
                   ( /\ pre.graph.congestion[e] = get_congestion(pre.congestions[k])
                     /\ graph.congestion[e] = get_congestion(congestions[k]) )
                   => RatLeq(pre.graph.itime[e], graph.itime[e])

\* C12: an edge whose speed (the maxspeed value chosen for its congestion) is
\* 0 raises no division error in build_igraph, and no route that is sent
\* passes over such an edge.
C12_DegenerateEdge ==
    /\ failed # "ZeroDivisionError"
    /\ (pc = "polling" /\ user_data.reply = "photo") =>
           \A j \in 1..(Len(user_data.path) - 1) :
               \A key \in Keys(graph, user_data.path[j], user_data.path[j + 1]) :
                   LET e == <<user_data.path[j], user_data.path[j + 1], key>>
                   IN  Speed(graph.maxspeed[e], graph.congestion[e]) # 0

\* C13: a row of the feed that does not unpack is skipped and the rebuild goes
\* on: the download does not stop the program, and every row of the feed read
\* last that does unpack is in the list of Congestion tuples.
C13_MalformedRowSkipped ==
    /\ failed # "ValueError"
    /\ \A i \in 1..Len(lines) :
           Unpacks(lines[i]) =>
               \E k \in 1..Len(congestions) : congestions[k] = Congestion(lines[i])

\* C14: a /go whose destination cannot be reached from the location in the
\* published graph is answered with the error message: no path is kept and no
\* picture of a route is sent.  A /go that is answered with a picture has a
\* path from the node of the location to the node of the destination.
C14_NoRouteFound ==
    (pc = "polling" /\ user_data.reply # "none") =>
        LET s == NodeOf(graph, user_data.location)
            t == NodeOf(graph, user_data.destination)
        IN  IF PathsFrom(graph, s, t, {s}) = {}
            THEN user_data.reply = "error" /\ user_data.path = NoPath
            ELSE /\ user_data.reply = "photo"
                 /\ user_data.path \in PathsFrom(graph, s, t, {s})

C14_Witness ==
    /\ pc = "polling" /\ user_data.reply = "error"
    /\ user_data.location = <<3, 3>> /\ user_data.destination = <<0, 0>>

C16_FreshRebuild ==
    (builds = 2 /\ Returned) =>
        LET r == build_igraph(BaseOf(graph), congestions)
        IN  r.ok /\ graph = r.g

\* C17: the first loop of build_igraph, at the street of index x, reads
\* highways[x] for every sample (no IndexError), and every level it leaves on
\* an edge is the level of a sample with the way_id of that street.  Stated of
\* the pass over one street, run on the graph without congestion attributes,
\* so that the edges the pass stamps are the edges that have the attribute.
C17_OwnSamplesOnly ==
    (Building /\ bpc = "match" /\ bx < Len(highways)) =>
        LET blank == [graph EXCEPT !.congestion = [e \in EdgeSet(graph) |-> NoAttr]]
            r == MatchHighway(blank, bx, congestions)
            own == {get_congestion(congestions[y]) :
                        y \in {k \in 1..Len(congestions) :
                                  congestions[k].way_id = At(highways, bx).way_id}}
        IN  /\ r.ok
            /\ \A e \in EdgeSet(graph) :
                   r.g.congestion[e] # NoAttr => r.g.congestion[e] \in own

\* the samples of the feed for the street of index k (1-based), and the level
\* of the last of them
SamplesOf(k) == {y \in 1..Len(congestions) : congestions[y].way_id = highways[k].way_id}
LevelOf(k) ==
    get_congestion(congestions[CHOOSE y \in SamplesOf(k) : \A z \in SamplesOf(k) : z <= y])

\* the edges of the shortest paths by length between the nodes nearest to the
\* consecutive points of the street of index k
PathEdges(g, k) ==
    LET c == highways[k].coordinates
        node(i) == nearest_nodes(g, c[2 * i + 1], c[2 * i + 2])
        route(i) == ShortestByLength(g, node(i), node(i + 1))
        hops == UNION { { <<route(i)[h], route(i)[h + 1]>> : h \in 1..(Len(route(i)) - 1) }
                        : i \in 0..((Len(c) \div 2) - 2) }
    IN  {e \in EdgeSet(g) : <<e[1], e[2]>> \in hops}

\* C18: when the paths of two streets that both have a sample share an edge,
\* after the build the edge has the level of the street that comes later in
\* the list of streets.  Stated for the first build.
C18_LastWriteWins ==
    (Returned /\ builds = 1) =>
        \A j \in 1..Len(highways), k \in 1..Len(highways) :
            (j < k /\ SamplesOf(j) # {} /\ SamplesOf(k) # {}) =>
                \A e \in PathEdges(graph, j) \cap PathEdges(graph, k) :
                    graph.congestion[e] = LevelOf(k)

\* C19: the first loop takes every pair of consecutive points (p_i, p_i+1) of
\* the street of a sample and stamps the path between their nearest nodes.
\* Stated for the first build and a feed of one sample, and of the first edge
\* of each path only: that is the edge the first round of the loop of
\* igo.py:367 writes whenever graph[0][1] exists.
C19_EveryPair ==
    ( /\ Returned /\ builds = 1 /\ Len(congestions) = 1
      /\ HasNode(graph, 0) /\ 1 \in Succ(graph, 0) ) =>
        \A k \in 1..Len(highways) :
            highways[k].way_id = congestions[1].way_id =>
                LET c == highways[k].coordinates
                    node(i) == nearest_nodes(graph, c[2 * i + 1], c[2 * i + 2])
                    route(i) == ShortestByLength(graph, node(i), node(i + 1))
                IN  \A i \in 0..((Len(c) \div 2) - 2) :
                        Len(route(i)) >= 2 =>
                            \A key \in Keys(graph, route(i)[1], route(i)[2]) \cap Keys(graph, 0, 1) :
                                graph.congestion[<<route(i)[1], route(i)[2], key>>]
                                    = get_congestion(congestions[1])

\* C20: after build_igraph returns, every edge has a congestion in 1..6
\* (get_congestion gives no 0 for any pair of levels 0..6), and every edge
\* whose speed and length are positive has an itime greater than 0.
C20_LevelsAndTimes ==
    /\ \A u \in Levels, a \in Levels : get_congestion(Congestion(Row(1, u, a))) \in 1..6
    /\ Returned =>
           \A e \in EdgeSet(graph) :
               /\ graph.congestion[e] \in 1..6
               /\ (Speed(graph.maxspeed[e], graph.congestion[e]) > 0 /\ graph.length[e] > 0) =>
                      (graph.itime[e] # NoItime /\ graph.itime[e][1] > 0 /\ graph.itime[e][2] > 0)

C20_Witness ==
    /\ Returned /\ congestions = <<Congestion(Row(2, 3, 0)), Congestion(Row(1, 0, 0))>>
    /\ BaseOf(graph) = NetZero
    /\ graph.congestion[<<2, 3, 0>>] = 2 /\ graph.itime[<<2, 3, 0>>] = <<8, 1>>

====
